---- MODULE Spec2Model ----
(***************************************************************************)
(* SkipList<T> of src/lib/skip.cpp: a stack of singly linked lists         *)
(* anchored by a column of sentinel nodes.  Nodes live in a heap of cells  *)
(* numbered from 1; nullptr is 0.  Every public operation is one action.   *)
(***************************************************************************)
EXTENDS Integers, Sequences, FiniteSets, TLC

\* ---------------------------------------------------------------- bounds
MaxVal == 2         \* values are 1..MaxVal
MaxHalf == 3        \* largest insertion height chose_level() + 1 explored
MaxLive == 3        \* add is explored while fewer than MaxLive insertions are alive

Values == 1..MaxVal

nullptr == 0
nullopt == 0

VARIABLES
    list,    \* the container: the heap of Node<T> objects and head_
    last,    \* the last call: operation, argument, height drawn, outcome
    ref,     \* reference multiset: adds minus successful removes, per value
    list2,   \* a second container driven by the same calls (SpecPair only)
    last2    \* the last call's outcome on the second container

vars == <<list, last, ref, list2, last2>>

\* ---------------------------------------------------------------- heap
\* Node<T> { value, down, right }; ins is a ghost field naming the add call
\* that created the node (0 for sentinels).  The heap maps the cells in use
\* to their nodes.
Sentinel(down) == [value |-> nullopt, down |-> down, right |-> nullptr, ins |-> 0]

\* SkipList(): head_ = make_shared<NT>(nullopt, nullptr, nullptr)
EmptyList ==
    [nodes |-> {1},
     heap  |-> (1 :> Sentinel(nullptr)),
     head_ |-> 1]

Min(S) == CHOOSE x \in S : \A y \in S : x <= y

\* make_shared<NT>(...) returns an unused cell.  The code compares an address
\* with nullptr only, so which cell it is cannot be observed and the allocator
\* is fixed: the sentinel of a level and the node of an insertion on a level
\* each have a cell of their own, free whenever asked for.
SentinelCell(level) == level + 1
NodeCell(ins, level) == MaxHalf + (ins - 1) * MaxHalf + level + 1

\* The insertions that still own a node.
LiveIns(L) == {L.heap[n].ins : n \in L.nodes} \ {0}

\* The name add(value) gives its insertion: the k-th name kept for the value,
\* k the least one no living insertion carries.
InsOf(value) == ((value - 1) * MaxLive + 1)..(value * MaxLive)
NewIns(L, value) == Min(InsOf(value) \ LiveIns(L))

MakeNode(L, n, value, down, right, ins) ==
    [L EXCEPT !.nodes = @ \cup {n},
              !.heap = (n :> [value |-> value, down |-> down,
                              right |-> right, ins |-> ins]) @@ @]

\* SkipList::height
RECURSIVE Depth(_, _)
Depth(L, cur) ==
    IF L.heap[cur].down # nullptr THEN 1 + Depth(L, L.heap[cur].down) ELSE 1

height(L) == Depth(L, L.head_)

\* ---------------------------------------------------------------- traverse
\* Variants of the comparison of line 165: reversed, and non-strict.
After(a, b) == a > b
BeforeOrEqual(a, b) == a <= b

\* line 165: *cur->value < value
Before(a, b) == a < b

\* lines 164-168: walk right while the next node's value is less than value;
\* the result is the node the walk stops on, its right link is the successor.
RECURSIVE WalkRight(_, _, _)
WalkRight(L, value, pre) ==
    LET cur == L.heap[pre].right IN
    IF cur # nullptr /\ Before(L.heap[cur].value, value)
    THEN WalkRight(L, value, cur)
    ELSE pre

\* lines 163-173: one round per level, descending through pre->down.
RECURSIVE Descend(_, _, _, _, _)
Descend(L, value, pre, level, tracked) ==
    IF pre = nullptr
    THEN [tracked |-> tracked, pre |-> pre, level |-> level]
    ELSE LET p == WalkRight(L, value, pre)
             cur == L.heap[p].right
         IN Descend(L, value, L.heap[p].down, level - 1,
                    (level :> <<p, cur>>) @@ tracked)

\* A traverse whose walk writes pre->right = cur->right where the code
\* advances pre: it unlinks the nodes it should step over.
RECURSIVE WalkRightUnlinking(_, _, _)
WalkRightUnlinking(L, value, pre) ==
    LET cur == L.heap[pre].right IN
    IF cur # nullptr /\ Before(L.heap[cur].value, value)
    THEN WalkRightUnlinking([L EXCEPT !.heap[pre].right = L.heap[cur].right],
                            value, pre)
    ELSE L

RECURSIVE DescendUnlinking(_, _, _, _, _)
DescendUnlinking(L, value, pre, level, tracked) ==
    IF pre = nullptr
    THEN [list |-> L, tracked |-> tracked, pre |-> pre, level |-> level]
    ELSE LET L1 == WalkRightUnlinking(L, value, pre)
         IN DescendUnlinking(L1, value, L1.heap[pre].down, level - 1,
                             (level :> <<pre, L1.heap[pre].right>>) @@ tracked)

traverseUnlinking(L, value) ==
    LET T == DescendUnlinking(L, value, L.head_, height(L) - 1, <<>>)
    IN [list |-> T.list,
        tracked |-> T.tracked,
        ok |-> (T.pre = nullptr /\ T.level = -1)]

\* A traverse that walks right on level 0 only: on the levels above it records
\* the sentinel and the sentinel's right neighbour.
traverseWalkingBottomOnly(L, value) ==
    LET T == Descend(L, value, L.head_, height(L) - 1, <<>>)
        S == Descend(L, nullopt, L.head_, height(L) - 1, <<>>)
    IN [list |-> L,
        tracked |-> [k \in DOMAIN T.tracked |->
                        IF k = 0 THEN T.tracked[k] ELSE S.tracked[k]],
        ok |-> (T.pre = nullptr /\ T.level = -1)]

\* SkipList::traverse; ok is the conjunction of the two check() calls.  The
\* function assigns to no node and not to head_: list is the container after
\* the call.
traverse(L, value) ==
    LET T == Descend(L, value, L.head_, height(L) - 1, <<>>)
    IN [list |-> L,
        tracked |-> T.tracked,
        ok |-> (T.pre = nullptr /\ T.level = -1)]

\* ---------------------------------------------------------------- add
\* lines 70-77: the number of consecutive zero draws, any natural number;
\* explored up to MaxHalf - 1.
chose_level == 0..(MaxHalf - 1)

\* A push that passes head_ as the new sentinel's right link as well.
PushHeadRightToo(L) ==
    LET n == SentinelCell(height(L))
    IN [MakeNode(L, n, nullopt, L.head_, L.head_, 0) EXCEPT !.head_ = n]

\* line 87: head_ = make_shared<NT>(nullopt, head_, nullptr)
PushHead(L) ==
    LET n == SentinelCell(height(L))
    IN [MakeNode(L, n, nullopt, L.head_, nullptr, 0) EXCEPT !.head_ = n]

RECURSIVE GrowHead(_, _)
GrowHead(L, times) ==
    IF times <= 0 THEN L ELSE GrowHead(PushHead(L), times - 1)

\* An ensure_height that also lowers head_ when the container is taller
\* than expected.
RECURSIVE DropHead(_, _)
DropHead(L, times) ==
    IF times <= 0 THEN L
    ELSE DropHead([L EXCEPT !.head_ = L.heap[L.head_].down], times - 1)

ensure_height_exact(L, expected) ==
    IF ~(expected > 0) THEN [list |-> L, ok |-> FALSE]
    ELSE LET current == height(L)
         IN IF current >= expected
            THEN [list |-> DropHead(L, current - expected), ok |-> TRUE]
            ELSE [list |-> GrowHead(L, expected - current), ok |-> TRUE]

\* lines 79-88; ok is check(expected > 0).
ensure_height(L, expected) ==
    IF ~(expected > 0) THEN [list |-> L, ok |-> FALSE]
    ELSE LET current == height(L)
         IN IF current >= expected THEN [list |-> L, ok |-> TRUE]
            ELSE [list |-> GrowHead(L, expected - current), ok |-> TRUE]

\* A splice that never updates down: every new node gets a null down link.
RECURSIVE SpliceUnchained(_, _, _, _, _, _, _)
SpliceUnchained(L, tracked, value, ins, idx, half, down) ==
    IF idx >= half THEN [list |-> L, res |-> "ok"]
    ELSE IF idx \notin DOMAIN tracked THEN [list |-> L, res |-> "out_of_range"]
    ELSE LET pre == tracked[idx][1]
             nex == tracked[idx][2]
             node == NodeCell(ins, idx)
             L1 == MakeNode(L, node, value, nullptr, nex, ins)
             L2 == [L1 EXCEPT !.heap[pre].right = node]
         IN SpliceUnchained(L2, tracked, value, ins, idx + 1, half, down)

\* A splice that reads tracked.at(0) on every level.
RECURSIVE SpliceAtBottomRecord(_, _, _, _, _, _, _)
SpliceAtBottomRecord(L, tracked, value, ins, idx, half, down) ==
    IF idx >= half THEN [list |-> L, res |-> "ok"]
    ELSE IF 0 \notin DOMAIN tracked THEN [list |-> L, res |-> "out_of_range"]
    ELSE LET pre == tracked[0][1]
             nex == tracked[0][2]
             node == NodeCell(ins, idx)
             L1 == MakeNode(L, node, value, down, nex, ins)
             L2 == [L1 EXCEPT !.heap[pre].right = node]
         IN SpliceAtBottomRecord(L2, tracked, value, ins, idx + 1, half, node)

\* lines 94-101: bottom-up, one new node per level 0..half-1.
RECURSIVE Splice(_, _, _, _, _, _, _)
Splice(L, tracked, value, ins, idx, half, down) ==
    IF idx >= half THEN [list |-> L, res |-> "ok"]
    ELSE IF idx \notin DOMAIN tracked THEN [list |-> L, res |-> "out_of_range"]
    ELSE LET pre == tracked[idx][1]
             nex == tracked[idx][2]
             node == NodeCell(ins, idx)
             L1 == MakeNode(L, node, value, down, nex, ins)
             L2 == [L1 EXCEPT !.heap[pre].right = node]
         IN Splice(L2, tracked, value, ins, idx + 1, half, node)

\* SkipList::add with the height half = chose_level() + 1 already drawn.
add(L, value, half, ins) ==
    LET E == ensure_height(L, half) IN
    IF ~E.ok THEN [list |-> E.list, res |-> "assertion fail"]
    ELSE LET T == traverse(E.list, value) IN
         IF ~T.ok THEN [list |-> T.list, res |-> "assertion fail"]
         ELSE Splice(T.list, T.tracked, value, ins, 0, half, nullptr)

\* ---------------------------------------------------------------- find
\* A find that reads the top level's record where the code reads level 0.
find_top(L, value) ==
    LET T == traverse(L, value)
        top == height(L) - 1
    IN
    IF ~T.ok THEN [list |-> T.list, res |-> "assertion fail", found |-> FALSE]
    ELSE IF top \notin DOMAIN T.tracked
    THEN [list |-> T.list, res |-> "out_of_range", found |-> FALSE]
    ELSE LET cur == T.tracked[top][2]
         IN [list |-> T.list,
             res |-> "ok",
             found |-> (cur # nullptr /\ T.list.heap[cur].value = value)]

\* lines 110-111
find(L, value) ==
    LET T == traverse(L, value) IN
    IF ~T.ok THEN [list |-> T.list, res |-> "assertion fail", found |-> FALSE]
    ELSE IF 0 \notin DOMAIN T.tracked
    THEN [list |-> T.list, res |-> "out_of_range", found |-> FALSE]
    ELSE LET cur == T.tracked[0][2]
         IN [list |-> T.list,
             res |-> "ok",
             found |-> (cur # nullptr /\ T.list.heap[cur].value = value)]

\* ---------------------------------------------------------------- remove
\* A clean_head with an if where the code has a while: it drops one level.
clean_head_once(L) ==
    IF L.heap[L.head_].right = nullptr /\ L.heap[L.head_].down # nullptr
    THEN [L EXCEPT !.head_ = L.heap[L.head_].down]
    ELSE L

\* lines 117-120
RECURSIVE clean_head(_)
clean_head(L) ==
    IF L.heap[L.head_].right = nullptr /\ L.heap[L.head_].down # nullptr
    THEN clean_head([L EXCEPT !.head_ = L.heap[L.head_].down])
    ELSE L

\* An unlink that writes pre->right = nullptr, dropping the rest of the level.
UnlinkAtDroppingRest(L, record, value) ==
    LET pre == record[1]
        cur == record[2]
    IN IF cur = nullptr \/ L.heap[cur].value # value THEN L
       ELSE [L EXCEPT !.heap[pre].right = nullptr]

\* lines 129-133: one level of the loop over tracked.
UnlinkAt(L, record, value) ==
    LET pre == record[1]
        cur == record[2]
    IN IF cur = nullptr \/ L.heap[cur].value # value THEN L
       ELSE [L EXCEPT !.heap[pre].right = L.heap[cur].right]

\* A loop that unlinks on level 0 only.
UnlinkBottomOnly(L, tracked, value, todo) ==
    LET pre == tracked[0][1]
        cur == tracked[0][2]
    IN IF cur = nullptr \/ L.heap[cur].value # value THEN L
       ELSE [L EXCEPT !.heap[pre].right = L.heap[cur].right]

\* line 128: the loop visits the levels of the std::map in ascending order.
RECURSIVE Unlink(_, _, _, _)
Unlink(L, tracked, value, todo) ==
    IF todo = {} THEN L
    ELSE LET idx == Min(todo)
         IN Unlink(UnlinkAt(L, tracked[idx], value), tracked, value, todo \ {idx})

\* shared_ptr ownership: a node no link reaches from head_ is destroyed.
RECURSIVE Reach(_, _, _)
Reach(L, frontier, seen) ==
    IF frontier = {} THEN seen
    ELSE LET nxt == ({L.heap[n].down : n \in frontier}
                       \cup {L.heap[n].right : n \in frontier})
                    \ (seen \cup {nullptr})
         IN Reach(L, nxt, seen \cup nxt)

Release(L) ==
    LET keep == Reach(L, {L.head_}, {L.head_})
    IN [L EXCEPT !.nodes = keep,
                 !.heap = [n \in keep |-> L.heap[n]]]

\* The test of line 125 without its comparison of values.
MissingIfNull(L, cur, value) == cur = nullptr

\* line 125: cur == nullptr || *cur->value != value
Missing(L, cur, value) == cur = nullptr \/ L.heap[cur].value # value

\* SkipList::remove
remove(L, value) ==
    LET T == traverse(L, value) IN
    IF ~T.ok THEN [list |-> T.list, res |-> "assertion fail"]
    ELSE IF 0 \notin DOMAIN T.tracked THEN [list |-> T.list, res |-> "out_of_range"]
    ELSE IF Missing(T.list, T.tracked[0][2], value)
    THEN [list |-> T.list, res |-> "no such value"]
    ELSE [list |-> Release(clean_head(
                      Unlink(T.list, T.tracked, value, DOMAIN T.tracked))),
          res |-> "ok"]

\* ---------------------------------------------------------------- iter
\* lines 185-187
RECURSIVE Bottom(_, _)
Bottom(L, row) ==
    IF L.heap[row].down # nullptr THEN Bottom(L, L.heap[row].down) ELSE row

\* lines 189-193
RECURSIVE Yield(_, _)
Yield(L, cur) ==
    IF cur = nullptr THEN <<>>
    ELSE <<L.heap[cur].value>> \o Yield(L, L.heap[cur].right)

\* SkipList::iter
iter(L) == Yield(L, L.heap[Bottom(L, L.head_)].right)

\* ---------------------------------------------------------------- actions

NoCall == [op |-> "new", value |-> 0, half |-> 0, ins |-> 0,
           res |-> "ok", found |-> FALSE, seq |-> <<>>]

Init ==
    /\ list = EmptyList
    /\ last = NoCall
    /\ ref = [v \in Values |-> 0]
    /\ list2 = EmptyList
    /\ last2 = NoCall

\* One call of each public operation on container L: the container after the
\* call and the record of the call.
AddCall(L, value, level) ==
    LET half == level + 1          \* line 90
        ins == NewIns(L, value)
        R == add(L, value, half, ins)
    IN [list |-> R.list,
        last |-> [NoCall EXCEPT !.op = "add", !.value = value, !.half = half,
                                !.ins = ins, !.res = R.res]]

FindCall(L, value) ==
    LET R == find(L, value)
    IN [list |-> R.list,
        last |-> [NoCall EXCEPT !.op = "find", !.value = value,
                                !.res = R.res, !.found = R.found]]

RemoveCall(L, value) ==
    LET R == remove(L, value)
    IN [list |-> R.list,
        last |-> [NoCall EXCEPT !.op = "remove", !.value = value, !.res = R.res]]

IterCall(L) ==
    [list |-> L, last |-> [NoCall EXCEPT !.op = "iter", !.seq = iter(L)]]

\* The reference multiset after a call.
RefAfter(call) ==
    IF call.res # "ok" THEN ref
    ELSE IF call.op = "add" THEN [ref EXCEPT ![call.value] = @ + 1]
    ELSE IF call.op = "remove" THEN [ref EXCEPT ![call.value] = @ - 1]
    ELSE ref

CanAdd(L) == Cardinality(LiveIns(L)) < MaxLive

Add(value, level) ==
    /\ CanAdd(list)
    /\ LET C == AddCall(list, value, level)
       IN list' = C.list /\ last' = C.last /\ ref' = RefAfter(C.last)
    /\ UNCHANGED <<list2, last2>>

Find(value) ==
    /\ LET C == FindCall(list, value)
       IN list' = C.list /\ last' = C.last /\ ref' = RefAfter(C.last)
    /\ UNCHANGED <<list2, last2>>

Remove(value) ==
    /\ LET C == RemoveCall(list, value)
       IN list' = C.list /\ last' = C.last /\ ref' = RefAfter(C.last)
    /\ UNCHANGED <<list2, last2>>

Iter ==
    /\ LET C == IterCall(list)
       IN list' = C.list /\ last' = C.last /\ ref' = RefAfter(C.last)
    /\ UNCHANGED <<list2, last2>>

Next ==
    \/ \E value \in Values, level \in chose_level : Add(value, level)
    \/ \E value \in Values : Find(value)
    \/ \E value \in Values : Remove(value)
    \/ Iter

Spec == Init /\ [][Next]_vars

\* ------------------------------------------------- two containers, same calls
\* list and list2 receive the same sequence of calls; only the heights drawn
\* by chose_level() differ.  In list every height is explored; in list2 the
\* first draw of line 74 is never 0, so chose_level() returns 0 and every
\* insertion has height 1.  Two containers that each agree with list2 on what
\* a caller observes agree with each other.
AddPair(value, level) ==
    /\ CanAdd(list) /\ CanAdd(list2)
    /\ LET C == AddCall(list, value, level)
           D == AddCall(list2, value, Min(chose_level))
       IN /\ list' = C.list /\ last' = C.last /\ ref' = RefAfter(C.last)
          /\ list2' = D.list /\ last2' = D.last

FindPair(value) ==
    LET C == FindCall(list, value)
        D == FindCall(list2, value)
    IN /\ list' = C.list /\ last' = C.last /\ ref' = RefAfter(C.last)
       /\ list2' = D.list /\ last2' = D.last

RemovePair(value) ==
    LET C == RemoveCall(list, value)
        D == RemoveCall(list2, value)
    IN /\ list' = C.list /\ last' = C.last /\ ref' = RefAfter(C.last)
       /\ list2' = D.list /\ last2' = D.last

IterPair ==
    LET C == IterCall(list)
        D == IterCall(list2)
    IN /\ list' = C.list /\ last' = C.last /\ ref' = RefAfter(C.last)
       /\ list2' = D.list /\ last2' = D.last

NextPair ==
    \/ \E value \in Values, level \in chose_level : AddPair(value, level)
    \/ \E value \in Values : FindPair(value)
    \/ \E value \in Values : RemovePair(value)
    \/ IterPair

SpecPair == Init /\ [][NextPair]_vars

\* ---------------------------------------------------------------- views
\* The nodes of one level, left to right, starting at node cur.
RECURSIVE RowFrom(_, _)
RowFrom(L, cur) ==
    IF cur = nullptr THEN <<>> ELSE <<cur>> \o RowFrom(L, L.heap[cur].right)

\* The head column, top sentinel first.
RECURSIVE ColumnFrom(_, _)
ColumnFrom(L, cur) ==
    IF cur = nullptr THEN <<>> ELSE <<cur>> \o ColumnFrom(L, L.heap[cur].down)

\* The nodes linked into level k (0 is the bottom), left to right.
Level(L, k) ==
    LET column == ColumnFrom(L, L.head_)
    IN RowFrom(L, L.heap[column[Len(column) - k]].right)

Range(seq) == {seq[i] : i \in 1..Len(seq)}

LevelsOf(L) == 0..(height(L) - 1)

\* The value nodes linked into some level.
Linked(L) == UNION {Range(Level(L, k)) : k \in LevelsOf(L)}

Count(seq, v) == Cardinality({i \in 1..Len(seq) : seq[i] = v})

NonDecreasing(seq) == \A i \in 1..(Len(seq) - 1) : seq[i] <= seq[i + 1]

\* The place of node n in a sequence of nodes.
Place(seq, n) == CHOOSE i \in 1..Len(seq) : seq[i] = n

NotFound == "no such value"

\* The values, and the insertions, of a sequence of nodes.
ValuesAt(L, seq) == [i \in 1..Len(seq) |-> L.heap[seq[i]].value]
NamesAt(L, seq) == [i \in 1..Len(seq) |-> L.heap[seq[i]].ins]

\* The sentinel of level k.
HeadOf(L, k) ==
    LET column == ColumnFrom(L, L.head_)
    IN column[Len(column) - k]

\* seq without its elements in set S.
RECURSIVE Without(_, _)
Without(seq, S) ==
    IF seq = <<>> THEN <<>>
    ELSE IF Head(seq) \in S THEN Without(Tail(seq), S)
    ELSE <<Head(seq)>> \o Without(Tail(seq), S)

\* ---------------------------------------------------------------- claims

\* C1: after any sequence of add and remove calls, with any insertion
\* heights, iter() yields a non-decreasing sequence whose multiset of values
\* is the added values minus the successfully removed ones.
C1_IterIsSortedMultiset ==
    /\ NonDecreasing(iter(list))
    /\ \A v \in Values : Count(iter(list), v) = ref[v]
    /\ Range(iter(list)) \subseteq Values
    /\ last.op = "iter" => last.seq = iter(list)

C1_Witness ==
    /\ last.op = "remove" /\ last.res = "ok"
    /\ Len(iter(list)) = 2
    /\ iter(list)[1] # iter(list)[2]
    /\ height(list) >= 2

\* C2: find(v) returns true iff at least one occurrence of v is in the
\* container; so it is true right after add(v) and false for every value on
\* an empty container.
C2_FindIffPresent ==
    /\ \A v \in Values :
          LET R == find(list, v)
          IN R.res = "ok" /\ (R.found <=> ref[v] > 0)
    /\ last.op = "find" => (last.found <=> ref[last.value] > 0)
    /\ (last.op = "add" /\ last.res = "ok") => find(list, last.value).found

C2_Witness ==
    /\ last.op = "find" /\ last.found
    /\ Len(iter(list)) >= 2
    /\ iter(list)[1] < last.value
    /\ height(list) >= 2

\* One step of the formula below.
C3_RemoveStep ==
    last'.op = "remove" =>
        LET v == last'.value IN
        /\ last'.res = "ok" =>
              /\ Count(iter(list'), v) = Count(iter(list), v) - 1
              /\ \A w \in Values \ {v} : Count(iter(list'), w) = Count(iter(list), w)
              /\ Len(iter(list')) = Len(iter(list)) - 1
        /\ Count(iter(list), v) = 0 => last'.res = NotFound
        /\ find(list', v).found <=> Count(iter(list), v) > 1

\* C3: a successful remove(v) removes exactly one occurrence of v from level
\* 0 and no occurrence of another value; a remove(v) issued when no
\* occurrence of v is left fails with NotFound.
C3_RemoveOneOccurrence == [][C3_RemoveStep]_vars

C3_Witness ==
    /\ last.op = "remove" /\ last.res = "ok"
    /\ ref[last.value] >= 1
    /\ Len(iter(list)) = 2

\* One step of the formula below.
C4_FailingRemoveStep ==
    last'.op = "remove" =>
        /\ (last'.res = NotFound) <=> (Count(iter(list), last'.value) = 0)
        /\ last'.res = NotFound =>
              /\ list' = list
              /\ height(list') = height(list)
              /\ iter(list') = iter(list)

\* C4: remove(v) fails with NotFound exactly when v has no occurrence in the
\* container, and a failing remove leaves every link, the head column and
\* height() as they were.
C4_NotFoundLeavesUnchanged == [][C4_FailingRemoveStep]_vars

C4_Witness ==
    /\ last.op = "remove" /\ last.res = NotFound
    /\ Len(iter(list)) >= 2
    /\ height(list) >= 2

\* One step of the formula below.
C5_HeightStep ==
    height(list') < height(list) => (last'.op = "remove" /\ last'.res = "ok")

\* C5: height() >= 1 in every state, and height() is lowered by no call but
\* a successful remove.
C5_HeightOnlyShrinksOnRemove ==
    /\ [](height(list) >= 1)
    /\ [][C5_HeightStep]_vars

C5_Witness ==
    /\ last.op = "add" /\ last.res = "ok"
    /\ last.half < height(list)

\* One step of the formula below.
C6_FindStep ==
    last'.op = "find" =>
        /\ last'.res = "ok"
        /\ list' = list
        /\ height(list') = height(list)

\* C6: find(v) never fails and changes no node value, no right or down link,
\* not the head pointer and not height().
C6_FindMutatesNothing == [][C6_FindStep]_vars

C6_Witness ==
    /\ last.op = "find"
    /\ height(list) >= 2
    /\ Len(iter(list)) >= 2
    /\ iter(list)[1] < last.value

\* C7: two containers driven by the same calls with different insertion
\* heights give the same find results, the same remove outcomes and the
\* same iter() sequence at every point: a container with any heights agrees
\* with the container whose insertions all have height 1.
C7_HeightsAreUnobservable ==
    /\ last.op = last2.op /\ last.value = last2.value
    /\ last.res = last2.res
    /\ last.found = last2.found
    /\ last.seq = last2.seq
    /\ iter(list) = iter(list2)
    /\ \A v \in Values : find(list, v).found = find(list2, v).found

C7_Witness ==
    /\ last.op = "find" /\ last.found
    /\ height(list) >= 2 /\ height(list2) = 1
    /\ Len(Level(list, height(list) - 1)) < Len(iter(list))
    /\ Len(iter(list2)) >= 2

\* C8 (as claimed): the node of add(v) is placed, on every level it occupies,
\* after all nodes equal to v that were on that level.
C8_NewNodeAfterEquals ==
    (last.op = "add" /\ last.res = "ok") =>
        \A k \in 0..(last.half - 1) :
            LET row == Level(list, k)
                new == NodeCell(last.ins, k)
            IN \A n \in Range(row) \ {new} :
                   list.heap[n].value = last.value => Place(row, n) < Place(row, new)

\* C8 (amended): the node of add(v) is placed, on every level it occupies,
\* before all nodes equal to v that were on that level (the latest inserted
\* of equal values comes first), right after the last smaller value.
C8_NewNodeBeforeEquals ==
    (last.op = "add" /\ last.res = "ok") =>
        \A k \in 0..(last.half - 1) :
            LET row == Level(list, k)
                new == NodeCell(last.ins, k)
            IN /\ new \in Range(row)
               /\ list.heap[new].value = last.value
               /\ \A n \in Range(row) \ {new} :
                     /\ list.heap[n].value = last.value => Place(row, new) < Place(row, n)
                     /\ list.heap[n].value < last.value => Place(row, n) < Place(row, new)

C8_Witness ==
    /\ last.op = "add" /\ last.res = "ok"
    /\ last.half >= 2
    /\ \A k \in 0..1 : Count([i \in 1..Len(Level(list, k)) |->
                                 list.heap[Level(list, k)[i]].value], last.value) >= 2

\* C9: the nodes one successful remove(v) unlinks are exactly the linked
\* nodes of one insertion.
C9_RemoveUnlinksOneInsertion ==
    \A v \in Values :
        LET R == remove(list, v)
            gone == Linked(list) \ Linked(R.list)
        IN R.res = "ok" =>
              \E i \in LiveIns(list) :
                  gone = {n \in Linked(list) : list.heap[n].ins = i}

\* C10: a value node linked into level k > 0 has a down link to a node of
\* the same insertion and value that is linked into level k - 1 (and so, level
\* by level, into every level below).
C10_VerticalContinuity ==
    \A k \in LevelsOf(list) \ {0} :
        \A n \in Range(Level(list, k)) :
            LET d == list.heap[n].down
            IN /\ d # nullptr
               /\ d \in Range(Level(list, k - 1))
               /\ list.heap[d].ins = list.heap[n].ins
               /\ list.heap[d].value = list.heap[n].value

\* A remove among equal values of different heights has left a tower standing.
C10_Witness ==
    /\ last.op = "remove" /\ last.res = "ok"
    /\ ref[last.value] >= 1
    /\ height(list) >= 2
    /\ Len(Level(list, 1)) < Len(Level(list, 0))

\* C11: on every level, not only level 0, the values met along the right
\* links from the sentinel are non-decreasing, equal values next to each other.
C11_EveryLevelSorted ==
    \A k \in LevelsOf(list) :
        LET values == ValuesAt(list, Level(list, k))
        IN /\ NonDecreasing(values)
           /\ \A i, j \in 1..Len(values) :
                 (i < j /\ values[i] = values[j]) =>
                     \A m \in i..j : values[m] = values[i]

C11_Witness ==
    /\ height(list) >= 2
    /\ LET values == ValuesAt(list, Level(list, 1))
       IN Len(values) = 3 /\ values[1] = values[2] /\ values[2] < values[3]

\* One step of the formula below: the step of an add(v) of height h.
C12_AddStep ==
    last'.op = "add" =>
        LET v == last'.value
            h == last'.half
            new(k) == NodeCell(last'.ins, k)
            news == {new(k) : k \in 0..(h - 1)}
        IN /\ last'.res = "ok"
           /\ height(list') = IF height(list) >= h THEN height(list) ELSE h
           /\ news \cap Linked(list) = {}
           /\ \A k \in LevelsOf(list') :
                 LET row == Level(list', k)
                     old == IF k \in LevelsOf(list) THEN Level(list, k) ELSE <<>>
                 IN /\ Without(row, news) = old
                    /\ k < h => /\ Count(row, new(k)) = 1
                                /\ Range(row) \cap news = {new(k)}
                                /\ list'.heap[new(k)].value = v
                                /\ list'.heap[new(k)].down =
                                       IF k = 0 THEN nullptr ELSE new(k - 1)
                    /\ k >= h => Range(row) \cap news = {}
           /\ \A n \in Linked(list) : list'.heap[n].value = list.heap[n].value

\* C12: after add(v) with height h, height() is the larger of the old
\* height() and h; one new node holding v is linked into each level 0..h-1 and
\* none into a level >= h; the new nodes are chained by down links from level
\* h-1 to level 0; every node linked before is linked on the same level still.
C12_AddPostcondition == [][C12_AddStep]_vars

C12_Witness ==
    /\ last.op = "add" /\ last.res = "ok"
    /\ last.half = 2
    /\ height(list) = 3
    /\ Len(Level(list, 0)) = 3
    /\ Level(list, 1)[1] # NodeCell(last.ins, 1)
    /\ NodeCell(last.ins, 1) \in Range(Level(list, 1))

\* C13: no empty top level survives an operation: height() = 1 or the top
\* sentinel has a right neighbour; every level below the top is non-empty; a
\* container from which all values have been removed is back at height() = 1.
C13_NoEmptyTopLevel ==
    /\ height(list) = 1 \/ list.heap[list.head_].right # nullptr
    /\ \A k \in LevelsOf(list) : k < height(list) - 1 => Level(list, k) # <<>>
    /\ (\A v \in Values : ref[v] = 0) => height(list) = 1

C13_Witness ==
    /\ last.op = "remove" /\ last.res = "ok"
    /\ \A v \in Values : ref[v] = 0
    /\ Level(list, 0) = <<>>
    /\ height(list) = 1

\* The outcomes of a failed check() (line 15) and of a tracked.at(idx) that
\* finds no entry (line 96).
InvariantViolation == {"assertion fail", "out_of_range"}

\* C14: no internal assertion fails.  For every value, traverse ends with the
\* descent pointer exhausted and the level counter at -1 and records a pair for
\* every level 0..height()-1; ensure_height is called with expected > 0 only;
\* so no call of add, find or remove ends in a failed check() or a missing
\* tracked.at(idx).
C14_NoInvariantViolation ==
    /\ last.res \notin InvariantViolation
    /\ \A v \in Values :
          LET T == traverse(list, v)
          IN T.ok /\ DOMAIN T.tracked = LevelsOf(list)
    /\ \A level \in chose_level : level + 1 > 0 /\ ensure_height(list, level + 1).ok
    /\ last.op = "add" => last.half > 0 /\ last.half <= height(list)

C14_Witness ==
    /\ last.op = "add" /\ last.res = "ok"
    /\ last.half = 3
    /\ height(list) = 3
    /\ Len(Level(list, 0)) = 3
    /\ Len(Level(list, 1)) = 2
    /\ \E v \in Values :
          LET T == traverse(list, v)
          IN T.tracked[2][1] # list.head_ /\ T.tracked[0][2] # nullptr

\* The place of the first value of values that is not less than v, one past
\* the end if there is none.
FirstNotLess(values, v) ==
    Min({i \in 1..Len(values) : values[i] >= v} \cup {Len(values) + 1})

\* C15: traverse(v) records, on every level, as successor the first node of the
\* level whose value is >= v (the first of the nodes equal to v on a tie, none
\* if there is no such node) and as predecessor the node or sentinel whose
\* right link is that successor.
C15_TraverseRecordsFirstNotLess ==
    \A v \in Values : \A k \in LevelsOf(list) :
        LET row == Level(list, k)
            at == FirstNotLess(ValuesAt(list, row), v)
            pre == traverse(list, v).tracked[k][1]
            cur == traverse(list, v).tracked[k][2]
        IN /\ cur = IF at > Len(row) THEN nullptr ELSE row[at]
           /\ pre = IF at = 1 THEN HeadOf(list, k) ELSE row[at - 1]
           /\ list.heap[pre].right = cur

C15_Witness ==
    \E v \in Values : \E k \in LevelsOf(list) :
        LET row == Level(list, k)
            tracked == traverse(list, v).tracked
        IN /\ k >= 1
           /\ Len(row) = 3
           /\ tracked[k] = <<row[1], row[2]>>
           /\ list.heap[row[2]].value = v
           /\ list.heap[row[3]].value = v

\* The nodes met from n by one or more right links, resp. down links.
RECURSIVE RightOf(_, _, _)
RightOf(L, n, seen) ==
    LET r == L.heap[n].right
    IN IF r = nullptr \/ r \in seen THEN seen ELSE RightOf(L, r, seen \cup {r})

RECURSIVE DownOf(_, _, _)
DownOf(L, n, seen) ==
    LET d == L.heap[n].down
    IN IF d = nullptr \/ d \in seen THEN seen ELSE DownOf(L, d, seen \cup {d})

\* The nodes whose right link is n.
Holders(L, n) == {m \in L.nodes : L.heap[m].right = n}

\* C16: following right links from any node, or down links from head_, ends:
\* no node is met twice; no node is the right target of two nodes; every
\* linked value node is the right target of exactly one node, a node or the
\* sentinel of its own level.
C16_SingleOwnerNoCycle ==
    /\ \A n \in list.nodes :
          n \notin RightOf(list, n, {}) /\ n \notin DownOf(list, n, {})
    /\ \A n \in list.nodes : Cardinality(Holders(list, n)) <= 1
    /\ \A k \in LevelsOf(list) :
          LET row == Level(list, k)
          IN /\ Cardinality(Range(row)) = Len(row)
             /\ \A n \in Range(row) :
                   /\ Cardinality(Holders(list, n)) = 1
                   /\ Holders(list, n) \subseteq Range(row) \cup {HeadOf(list, k)}
    /\ \A k, m \in LevelsOf(list) :
          k # m => Range(Level(list, k)) \cap Range(Level(list, m)) = {}

C16_Witness ==
    /\ last.op = "remove" /\ last.res = "ok"
    /\ height(list) >= 2
    /\ Len(Level(list, 0)) = 2
    /\ Len(Level(list, 1)) = 1
    /\ Holders(list, Level(list, 1)[1]) = {HeadOf(list, 1)}
    /\ Holders(list, Level(list, 0)[2]) = {Level(list, 0)[1]}

\* C17: sentinels are confined to the head column: the nodes of the head
\* column carry no value and every node that is the target of a right link
\* carries one, so the nodes whose value traverse, find, remove and iter
\* dereference (each the target of a right link) all hold a value.
C17_SentinelsInHeadColumnOnly ==
    /\ \A n \in Range(ColumnFrom(list, list.head_)) :
          list.heap[n].value = nullopt /\ Holders(list, n) = {}
    /\ \A n \in list.nodes :
          LET r == list.heap[n].right
          IN r # nullptr => r \in list.nodes /\ list.heap[r].value \in Values
    /\ \A v \in Values : \A k \in LevelsOf(list) :
          LET cur == traverse(list, v).tracked[k][2]
          IN cur # nullptr => list.heap[cur].value \in Values
    /\ \A i \in 1..Len(iter(list)) : iter(list)[i] \in Values

C17_Witness ==
    /\ last.op = "iter"
    /\ Len(last.seq) = 3
    /\ height(list) = 3
    /\ Len(Level(list, 2)) = 2
    /\ \A k \in LevelsOf(list) : list.heap[HeadOf(list, k)].right # nullptr

\* a is b with some of its elements left out.
RECURSIVE IsSubsequence(_, _)
IsSubsequence(a, b) ==
    IF a = <<>> THEN TRUE
    ELSE IF b = <<>> THEN FALSE
    ELSE IF Head(a) = Head(b) THEN IsSubsequence(Tail(a), Tail(b))
    ELSE IsSubsequence(a, Tail(b))

\* C18: the insertions met on level k+1, left to right, are a subsequence of
\* the insertions met on level k, also among equal values and after removes.
C18_LevelsAreSubsequences ==
    \A k \in LevelsOf(list) :
        k + 1 \in LevelsOf(list) =>
            IsSubsequence(NamesAt(list, Level(list, k + 1)),
                          NamesAt(list, Level(list, k)))

C18_Witness ==
    /\ last.op = "remove" /\ last.res = "ok"
    /\ height(list) >= 2
    /\ LET upper == Level(list, 1)
           lower == Level(list, 0)
       IN /\ Len(upper) = 2 /\ Len(lower) = 2
          /\ list.heap[upper[1]].value = list.heap[upper[2]].value
          /\ NamesAt(list, upper) = NamesAt(list, lower)

====
